---- MODULE Spec2Model ----
(***************************************************************************)
(* Model of Convert_TE_annotation_Telescope.py: the RepeatMasker .out to   *)
(* Telescope GTF converter (parse_repeatmasker_out, write_gtf, main).      *)
(*                                                                         *)
(* Text is modelled as it is laid out in the files: a file is a sequence   *)
(* of lines, a line is a sequence of string pieces whose concatenation is  *)
(* the line.  In an input line a piece is either a run of whitespace (a    *)
(* member of WS) or a run of non-whitespace characters.                    *)
(***************************************************************************)
EXTENDS Integers, Sequences, FiniteSets, TLC

VARIABLES argv, fs, fs0, pc, exc, exit_status, stdout, calls, io,
          hdr_i, f_pos, locus_counter, hashmemo, tes, ret, returned, w_i

vars == <<argv, fs, fs0, pc, exc, exit_status, stdout, calls, io,
          hdr_i, f_pos, locus_counter, hashmemo, tes, ret, returned, w_i>>

\* ---------------------------------------------------------------- bounds
MaxLines == 3

\* ------------------------------------------------------ program constants
HeaderLines == 3
\* a field-count test that asks only for the fields the parser reads
MinFieldsLoose == 10 + 1

MinFields == 15
HashMod == 10000000
IdWidth == 7
TopN == 10
UsageStatus == 1

\* -------------------------------------------------------------- text
WS == {" ", "  ", "\t", "\n"}

NL == "\n"

\* a path with no file, and a file with its lines
Absent == [exists |-> FALSE, lines |-> <<>>]

File(lines) == [exists |-> TRUE, lines |-> lines]

InPath == "genome.fa.out"

OutPath == "output.gtf"

Paths == {InPath, OutPath}

\* str.strip(): leading and trailing whitespace removed
RECURSIVE lstrip(_)
lstrip(line) ==
    IF line # <<>> /\ Head(line) \in WS THEN lstrip(Tail(line)) ELSE line

RECURSIVE rstrip(_)
rstrip(line) ==
    IF line # <<>> /\ line[Len(line)] \in WS
    THEN rstrip(SubSeq(line, 1, Len(line) - 1)) ELSE line

strip(line) == rstrip(lstrip(line))

\* str.split(): the maximal runs of non-whitespace, whitespace runs dropped
RECURSIVE SplitFrom(_, _, _, _)
SplitFrom(line, i, cur, acc) ==
    IF i > Len(line)
    THEN IF cur = "" THEN acc ELSE Append(acc, cur)
    ELSE IF line[i] \in WS
         THEN SplitFrom(line, i + 1, "", IF cur = "" THEN acc ELSE Append(acc, cur))
         ELSE SplitFrom(line, i + 1, cur \o line[i], acc)

split(line) == SplitFrom(line, 1, "", <<>>)

\* int(): the integers the inputs use, in the spellings int() accepts
IntVals == {5, 7, 12, 100, 250}

Spellings(n) == {ToString(n), "+" \o ToString(n), "00" \o ToString(n)}

IsInt(tok) == \E n \in IntVals : tok \in Spellings(n)

int(tok) == CHOOSE n \in IntVals : tok \in Spellings(n)

\* str(): decimal rendering of an integer
str(n) == ToString(n)

\* format spec 07d of a non-negative integer below HashMod
RECURSIVE ZeroPad(_, _)
ZeroPad(s, digits) ==
    IF digits >= IdWidth THEN s ELSE ZeroPad("0" \o s, digits + 1)

RECURSIVE NumDigits(_)
NumDigits(n) == IF n < 10 THEN 1 ELSE 1 + NumDigits(n \div 10)

Fmt07d(n) == ZeroPad(ToString(n), NumDigits(n))

abs(n) == IF n < 0 THEN -n ELSE n

\* hash() of a str is salted per process: any of these for a new string
HashVals == {-12345678, 10000042}

\* defaultdict(int) lookup
CountShared(counter, key) ==
    IF DOMAIN counter = {} THEN 0
    ELSE CHOOSE m \in {counter[k] : k \in DOMAIN counter} :
             \A k \in DOMAIN counter : counter[k] <= m

Count(counter, key) == IF key \in DOMAIN counter THEN counter[key] ELSE 0

\* ------------------------------------------------------------ the inputs
Join(tokens, sep) ==
    [i \in 1..(2 * Len(tokens) - 1) |->
        IF i % 2 = 1 THEN tokens[(i + 1) \div 2] ELSE sep]

Line(tokens) == Append(Join(tokens, " "), NL)

Hdr1 == Line(<<"SW", "perc", "perc", "perc", "query", "position", "in", "query">>)

Hdr2 == Line(<<"score", "div.", "del.", "ins.", "sequence", "begin", "end", "(left)">>)

Hdr3 == <<NL>>

LineA == Line(<<"1504", "12.3", "0.0", "0.0", "chr2L", "100", "250", "(500)",
                "C", "DNAREP1", "LTR", "1", "151", "(0)", "1">>)

LineA2 == <<"  ">> \o Line(<<"88", "0.5", "0.0", "0.0", "chr2R", "+5", "007", "(3)",
                "C", "DNAREP1", "LTR", "4", "6", "(0)", "3">>)

LineB == <<"\t">> \o Line(<<"239", "4.1", "0.0", "0.0", "chrX", "5", "12", "(9)",
                "+", "roo", "LTR/Pao", "1", "8", "(0)", "2", "*">>)

LineScenario == Line(<<"1504", "12.3", "0.0", "0.0", "chr2L", "100", "250", "(500)",
                "C", "DNAREP1", "LTR">>)

LineShortBad == Line(<<"77", "1.0", "0.0", "0.0", "chr3R", "beg", "fin", "(1)",
                "+", "roo", "LTR", "1", "2", "3">>)

LineBlank == <<"  ", NL>>

LineBadStart == Line(<<"61", "2.2", "0.0", "0.0", "chr4", "x100", "250", "(1)",
                "+", "DNAREP1", "LTR", "1", "2", "(0)", "4">>)

LineBadEnd == Line(<<"62", "2.3", "0.0", "0.0", "chr4", "100", "250.0", "(1)",
                "C", "roo", "LTR", "1", "2", "(0)", "5">>)

BodyLines == {LineA, LineA2, LineB, LineScenario, LineShortBad, LineBlank,
              LineBadStart, LineBadEnd}

Bodies == UNION {[1..n -> BodyLines] : n \in 0..MaxLines}

Header3 == <<Hdr1, Hdr2, Hdr3>>

InputFiles == {Absent, File(<<Hdr1, Hdr2>>)} \cup {File(Header3 \o b) : b \in Bodies}

OldGtf == File(<< <<"# an earlier annotation", NL>> >>)

Prog == "Convert_TE_annotation_Telescope.py"

\* sys.argv: the script name, then the positional arguments
ArgVectors == {<<Prog>>, <<Prog, InPath>>, <<Prog, InPath, OutPath>>,
               <<Prog, InPath, OutPath, OutPath>>}

\* ------------------------------------------------------------- records
\* token k of a split line, numbered from 0 as in the source
Tok(parts, k) == parts[k + 1]

\* strand symbol: C is the reverse strand, anything else forward
ConvertStrandSwapped(strand) == IF strand = "C" THEN "+" ELSE "-"

ConvertStrand(strand) == IF strand = "C" THEN "-" ELSE "+"

\* locus id: repeat name, the two characters {}, the running count
LocusIdPlain(repeat_name, n) == repeat_name \o ToString(n)

LocusId(repeat_name, n) == repeat_name \o "{}" \o ToString(n)

\* pseudo identifier from a hash value
FbtiId(h) == "TE" \o Fmt07d(abs(h) % HashMod)

\* the dictionary appended for one accepted line
MakeTe(parts, n, h) ==
    [chr           |-> Tok(parts, 4),
     start         |-> int(Tok(parts, 5)),
     end           |-> int(Tok(parts, 6)),
     strand        |-> ConvertStrand(Tok(parts, 8)),
     family        |-> Tok(parts, 9),
     class         |-> Tok(parts, 10),
     gene_id       |-> FbtiId(h),
     transcript_id |-> FbtiId(h),
     locus_id      |-> LocusId(Tok(parts, 9), n),
     length        |-> int(Tok(parts, 6)) - int(Tok(parts, 5)) + 1,
     perc_div      |-> Tok(parts, 1),
     score         |-> Tok(parts, 0)]

\* -------------------------------------------------------------- writer
GtfHeader ==
    << <<"# GTF annotation of Drosophila melanogaster transposable elements", NL>>,
       <<"# Generated from RepeatMasker output", NL>>,
       <<"# Format: GTF (compatible with Telescope)", NL>>,
       <<"# Overlap mode: union (handles nested TEs)", NL>>,
       <<"#", NL>> >>

\* one key "value"; segment of the attribute string
AttrBare(key, val) == <<key, " ", val, ";">>

Attr(key, val) == <<key, " ", "\"", val, "\"", ";">>

Attributes(te) ==
    Attr("gene_id", te.gene_id) \o <<" ">> \o
    Attr("transcript_id", te.transcript_id) \o <<" ">> \o
    Attr("family_id", te.family) \o <<" ">> \o
    Attr("locus_id", te.locus_id) \o <<" ">> \o
    Attr("length", str(te.length)) \o <<" ">> \o
    Attr("repeat_class", te.class) \o <<" ">> \o
    Attr("divergence", te.perc_div)

\* sep.join(fields), each field a sequence of pieces
RECURSIVE JoinPieces(_, _)
JoinPieces(fields, sep) ==
    IF fields = <<>> THEN <<>>
    ELSE IF Len(fields) = 1 THEN fields[1]
    ELSE fields[1] \o <<sep>> \o JoinPieces(Tail(fields), sep)

GtfLine(te) ==
    JoinPieces(<< <<te.chr>>, <<"RepeatMasker">>, <<"exon">>, <<str(te.start)>>,
                  <<str(te.end)>>, <<te.score>>, <<te.strand>>, <<".">>,
                  Attributes(te) >>, "\t") \o <<NL>>

\* ------------------------------------------------------------- summary
\* families dict: keys in first-seen order with their counts
RECURSIVE Tally(_, _)
Tally(records, fams) ==
    IF records = <<>> THEN fams
    ELSE LET fam == Head(records).family
             at  == {i \in 1..Len(fams) : fams[i][1] = fam}
         IN  IF at = {}
             THEN Tally(Tail(records), Append(fams, <<fam, 1>>))
             ELSE LET i == CHOOSE j \in at : TRUE
                  IN  Tally(Tail(records), [fams EXCEPT ![i] = <<fam, fams[i][2] + 1>>])

\* sorted(items, key=count, reverse=True): descending, stable
RECURSIVE SortDesc(_, _)
SortDesc(items, acc) ==
    IF items = <<>> THEN acc
    ELSE LET it == Head(items)
             k  == Cardinality({i \in 1..Len(acc) : acc[i][2] >= it[2]})
         IN  SortDesc(Tail(items),
                      SubSeq(acc, 1, k) \o <<it>> \o SubSeq(acc, k + 1, Len(acc)))

TopFamilies(records) ==
    LET srt == SortDesc(Tally(records, <<>>), <<>>)
    IN  SubSeq(srt, 1, IF Len(srt) < TopN THEN Len(srt) ELSE TopN)

SummaryLines(records) ==
    LET top == TopFamilies(records)
    IN  <<"Found " \o ToString(Len(records)) \o " TE annotations",
          "Found " \o ToString(Len(Tally(records, <<>>))) \o " unique TE families",
          "\nTop 10 families:">> \o
        [i \in 1..Len(top) |-> "  " \o top[i][1] \o ": " \o ToString(top[i][2])]

UsageLine == "Usage: python3 repeatmasker_to_gtf.py genome.fa.out output.gtf"

\* ---------------------------------------------------------------- state
NoValue == "none"

\* the exit status: none while the process runs
Running == <<>>

Exited(status) == <<status>>

Init ==
    /\ argv \in ArgVectors
    /\ fs \in {[p \in Paths |-> IF p = InPath THEN i ELSE o] :
                   i \in InputFiles, o \in {Absent, OldGtf}}
    /\ fs0 = fs
    /\ pc = "main"
    /\ exc = NoValue
    /\ exit_status = Running
    /\ stdout = <<>>
    /\ calls = <<>>
    /\ io = <<>>
    /\ hdr_i = 0
    /\ f_pos = 0
    /\ locus_counter = <<>>
    /\ hashmemo = <<>>
    /\ tes = <<>>
    /\ ret = <<>>
    /\ returned = FALSE
    /\ w_i = 0

\* sys.argv[k]
Argv(k) == argv[k + 1]

\* the file object of parse_repeatmasker_out, and the path main writes to
InFile == fs[Argv(1)]

OutArg == Argv(2)

\* the uncaught exception ends the process
RaiseSwallowed(kind) ==
    /\ pc' = "summary"
    /\ exc' = kind
    /\ exit_status' = exit_status

Raise(kind) ==
    /\ pc' = "aborted"
    /\ exc' = kind
    /\ exit_status' = Exited(1)

\* the argument-count test of main
UsageErrorLax(args) == Len(args) < 3

UsageError(args) == Len(args) # 3

\* main: the argument check, then the call of the parser
MainStart ==
    /\ pc = "main"
    /\ IF UsageError(argv)
       THEN /\ stdout' = Append(stdout, UsageLine)
            /\ exit_status' = Exited(UsageStatus)
            /\ pc' = "exited"
            /\ UNCHANGED calls
       ELSE /\ stdout' = Append(stdout, "Parsing RepeatMasker output: " \o Argv(1))
            /\ calls' = Append(calls, "parse_repeatmasker_out")
            /\ pc' = "parse_open"
            /\ UNCHANGED exit_status
    /\ UNCHANGED <<argv, fs, fs0, exc, io, hdr_i, f_pos, locus_counter,
                   hashmemo, tes, ret, returned, w_i>>

\* parse_repeatmasker_out: tes = [] and open(out_file, 'r')
ParseOpen ==
    /\ pc = "parse_open"
    /\ IF ~InFile.exists
       THEN /\ Raise("FileNotFoundError")
            /\ UNCHANGED io
       ELSE /\ io' = Append(io, <<"open_r", Argv(1)>>)
            /\ pc' = "skip_header"
            /\ UNCHANGED <<exc, exit_status>>
    /\ tes' = <<>>
    /\ hdr_i' = 0
    /\ f_pos' = 0
    /\ UNCHANGED <<argv, fs, fs0, stdout, calls, locus_counter, hashmemo, ret, returned, w_i>>

\* one next(f) of the header loop; after the last, locus_counter is created
SkipHeader ==
    /\ pc = "skip_header"
    /\ IF f_pos >= Len(InFile.lines)
       THEN /\ Raise("StopIteration")
            /\ UNCHANGED <<hdr_i, f_pos, locus_counter>>
       ELSE /\ f_pos' = f_pos + 1
            /\ hdr_i' = hdr_i + 1
            /\ pc' = IF hdr_i + 1 = HeaderLines THEN "parse_loop" ELSE "skip_header"
            /\ locus_counter' = <<>>
            /\ UNCHANGED <<exc, exit_status>>
    /\ UNCHANGED <<argv, fs, fs0, stdout, calls, io, hashmemo, tes, ret, returned, w_i>>

\* the two continue tests: a blank line, a line of too few fields
SkippedOrBad(line, parts) ==
    \/ line = <<>>
    \/ Len(parts) < MinFields
    \/ ~IsInt(Tok(parts, 5))
    \/ ~IsInt(Tok(parts, 6))

Skipped(line, parts) == line = <<>> \/ Len(parts) < MinFields

\* one iteration of the loop over the remaining lines
ParseLine ==
    /\ pc = "parse_loop"
    /\ f_pos < Len(InFile.lines)
    /\ LET line  == strip(InFile.lines[f_pos + 1])
           parts == split(line)
       IN  IF Skipped(line, parts)
           THEN /\ f_pos' = f_pos + 1
                /\ UNCHANGED <<pc, exc, exit_status, locus_counter, hashmemo, tes>>
           ELSE IF ~IsInt(Tok(parts, 5)) \/ ~IsInt(Tok(parts, 6))
           THEN /\ Raise("ValueError")
                /\ UNCHANGED <<f_pos, locus_counter, hashmemo, tes>>
           ELSE LET repeat_name == Tok(parts, 9)
                    n           == Count(locus_counter, repeat_name) + 1
                    locus_id    == LocusId(repeat_name, n)
                IN  \E h \in HashVals :
                      /\ locus_id \in DOMAIN hashmemo => h = hashmemo[locus_id]
                      /\ hashmemo' = (locus_id :> h) @@ hashmemo
                      /\ locus_counter' = (repeat_name :> n) @@ locus_counter
                      /\ tes' = Append(tes, MakeTe(parts, n, h))
                      /\ f_pos' = f_pos + 1
                      /\ UNCHANGED <<pc, exc, exit_status>>
    /\ UNCHANGED <<argv, fs, fs0, stdout, calls, io, hdr_i, ret, returned, w_i>>

\* end of input: the file is closed and tes returned to main
ParseReturn ==
    /\ pc = "parse_loop"
    /\ f_pos = Len(InFile.lines)
    /\ ret' = tes
    /\ returned' = TRUE
    /\ pc' = "summary"
    /\ UNCHANGED <<argv, fs, fs0, exc, exit_status, stdout, calls, io, hdr_i,
                   f_pos, locus_counter, hashmemo, tes, w_i>>

\* main: the counts, the family table, then the call of the writer
Summary ==
    /\ pc = "summary"
    /\ stdout' = stdout \o SummaryLines(ret) \o <<"\nWriting GTF to: " \o OutArg>>
    /\ calls' = Append(calls, "write_gtf")
    /\ pc' = "write_open"
    /\ UNCHANGED <<argv, fs, fs0, exc, exit_status, io, hdr_i, f_pos,
                   locus_counter, hashmemo, tes, ret, returned, w_i>>

\* write_gtf: open(output_file, 'w') creates or truncates the file
WriteOpen ==
    /\ pc = "write_open"
    /\ io' = Append(io, <<"open_w", OutArg>>)
    /\ fs' = [fs EXCEPT ![OutArg] = File(<<>>)]
    /\ pc' = "write_header"
    /\ UNCHANGED <<argv, fs0, exc, exit_status, stdout, calls, hdr_i, f_pos,
                   locus_counter, hashmemo, tes, ret, returned, w_i>>

\* the five comment lines
WriteHeader ==
    /\ pc = "write_header"
    /\ fs' = [fs EXCEPT ![OutArg].lines = @ \o GtfHeader]
    /\ w_i' = 0
    /\ pc' = "write_loop"
    /\ UNCHANGED <<argv, fs0, exc, exit_status, stdout, calls, io, hdr_i, f_pos,
                   locus_counter, hashmemo, tes, ret, returned>>

\* one iteration of the loop over tes
WriteEntryReversed ==
    /\ pc = "write_loop"
    /\ w_i < Len(ret)
    /\ fs' = [fs EXCEPT ![OutArg].lines = Append(@, GtfLine(ret[Len(ret) - w_i]))]
    /\ w_i' = w_i + 1
    /\ UNCHANGED <<argv, fs0, pc, exc, exit_status, stdout, calls, io, hdr_i,
                   f_pos, locus_counter, hashmemo, tes, ret, returned>>

WriteEntry ==
    /\ pc = "write_loop"
    /\ w_i < Len(ret)
    /\ fs' = [fs EXCEPT ![OutArg].lines = Append(@, GtfLine(ret[w_i + 1]))]
    /\ w_i' = w_i + 1
    /\ UNCHANGED <<argv, fs0, pc, exc, exit_status, stdout, calls, io, hdr_i,
                   f_pos, locus_counter, hashmemo, tes, ret, returned>>

\* the writer returns and main prints Done!
WriteClose ==
    /\ pc = "write_loop"
    /\ w_i = Len(ret)
    /\ stdout' = Append(stdout, "Done!")
    /\ exit_status' = Exited(0)
    /\ pc' = "done"
    /\ UNCHANGED <<argv, fs, fs0, exc, calls, io, hdr_i, f_pos, locus_counter,
                   hashmemo, tes, ret, returned, w_i>>

Next ==
    \/ MainStart
    \/ ParseOpen
    \/ SkipHeader
    \/ ParseLine
    \/ ParseReturn
    \/ Summary
    \/ WriteOpen
    \/ WriteHeader
    \/ WriteEntry
    \/ WriteClose

Spec == Init /\ [][Next]_vars

\* =========================================================== properties
\* the vocabulary of the properties, stated on the files and the console

Positional == Len(argv) - 1

\* the input file as it was when the program started
Given == fs0[InPath]

PostHeader == SubSeq(Given.lines, 4, Len(Given.lines))

WellHeaded == Given.exists /\ Len(Given.lines) >= 3

NotWhite(piece) == piece \notin WS

Tokens(line) == SelectSeq(line, NotWhite)

NumTokens(line) == Len(Tokens(line))

Qualifies(line) == NumTokens(line) >= 15

QualLines(lines) == SelectSeq(lines, Qualifies)

CoordsInt(line) == IsInt(Tokens(line)[6]) /\ IsInt(Tokens(line)[7])

Terminal == pc \in {"done", "aborted", "exited"}

Writing == pc \in {"write_loop", "done"}

Out == fs[OutArg]

\* the lines of the output file after its five comment lines
DataLines == SubSeq(Out.lines, 6, Len(Out.lines))

TabCount(line) == Cardinality({i \in 1..Len(line) : line[i] = "\t"})

\* the ninth tab-separated field of an output line, without the newline
AttrOf(line) ==
    LET tabs == {i \in 1..Len(line) : line[i] = "\t"}
        last == CHOOSE i \in tabs : \A j \in tabs : j <= i
    IN  SubSeq(line, last + 1, Len(line) - 1)

Keys == <<"gene_id", "transcript_id", "family_id", "locus_id", "length",
          "repeat_class", "divergence">>

QuotedAt(attr, k, at) ==
    /\ attr[at] = Keys[k]
    /\ attr[at + 1] = " "
    /\ attr[at + 2] = "\""
    /\ attr[at + 4] = "\""
    /\ attr[at + 5] = ";"

BareAt(attr, k, at) ==
    /\ attr[at] = Keys[k]
    /\ attr[at + 1] = " "
    /\ attr[at + 2] # "\""
    /\ attr[at + 3] = ";"

\* how often the family of record i has occurred up to and including i
Occurrence(records, i) ==
    Cardinality({j \in 1..i : records[j].family = records[i].family})

OutShape ==
    /\ Out.exists
    /\ Len(GtfHeader) = 5
    /\ Len(Out.lines) = 5 + Len(QualLines(PostHeader))
    /\ SubSeq(Out.lines, 1, 5) = GtfHeader
    /\ \A k \in 1..Len(DataLines) : TabCount(DataLines[k]) = 8

\* C1 as stated: for every input with a 3-line header followed by any lines,
\* the run ends with an output file of the 5 comment lines and one data line
\* per non-blank post-header line of at least 15 tokens.
C1_Original ==
    (Positional = 2 /\ WellHeaded /\ Terminal) => OutShape

\* C1 amended: the same, for the inputs in which every post-header line of at
\* least 15 tokens has integer tokens 5 and 6; a header-only input gives the
\* 5 comment lines alone.
C1_Shape ==
    (/\ Positional = 2
     /\ WellHeaded
     /\ \A k \in 1..Len(PostHeader) : Qualifies(PostHeader[k]) => CoordsInt(PostHeader[k])
     /\ Terminal)
    => (pc = "done" /\ OutShape)

C1_Witness ==
    /\ pc = "done"
    /\ Len(PostHeader) = 3
    /\ Len(QualLines(PostHeader)) = 2
    /\ Len(Out.lines) = 7

ScenarioInput == Positional = 2 /\ Given = File(Header3 \o <<LineScenario>>)

PaddedInput == Positional = 2 /\ Given = File(Header3 \o <<LineA>>)

ScenarioRecord(te) ==
    /\ te.chr = "chr2L"
    /\ te.start = 100
    /\ te.end = 250
    /\ te.strand = "-"
    /\ te.family = "DNAREP1"
    /\ te.class = "LTR"
    /\ te.length = 151

\* C2 as stated: three header lines and the 11-token line
\* "1504 12.3 0.0 0.0 chr2L 100 250 (500) C DNAREP1 LTR" parse to exactly one
\* record chr2L 100 250 - DNAREP1 LTR of length 151.
C2_Original ==
    (ScenarioInput /\ returned) => (Len(ret) = 1 /\ ScenarioRecord(ret[1]))

\* C2 amended: that line has 11 tokens and is dropped, so the parser returns
\* no record; followed by four further tokens (15 in all) it parses to
\* exactly the one record the claim describes.
C2_Scenario ==
    /\ (ScenarioInput /\ returned) => ret = <<>>
    /\ (PaddedInput /\ returned) => (Len(ret) = 1 /\ ScenarioRecord(ret[1]))

C2_Witness == ScenarioInput /\ returned /\ pc = "done"

\* C3 as stated: seven key/value segments in the fixed order, the first six
\* values in double quotes, the value of divergence without quotes.
C3_Original ==
    (Positional = 2 /\ Writing) =>
        \A n \in 1..Len(DataLines) :
            LET attr == AttrOf(DataLines[n])
            IN  /\ Len(attr) = 46
                /\ \A k \in 1..6 : QuotedAt(attr, k, 7 * (k - 1) + 1) /\ attr[7 * k] = " "
                /\ BareAt(attr, 7, 43)

\* C3 amended: seven key/value segments in the fixed order, each rendered
\* key "value"; with the value in double quotes, divergence included.
C3_Attributes ==
    (Positional = 2 /\ Writing) =>
        \A n \in 1..Len(DataLines) :
            LET attr == AttrOf(DataLines[n])
            IN  /\ Len(attr) = 48
                /\ Cardinality({i \in 1..Len(attr) : attr[i] = ";"}) = 7
                /\ \A k \in 1..7 : QuotedAt(attr, k, 7 * (k - 1) + 1)
                /\ \A k \in 1..6 : attr[7 * k] = " "

C3_Witness == pc = "done" /\ Len(DataLines) = 2

\* C4: the records of a family carry the ordinals 1, 2, ..., k in input
\* order; the counter of a family counts its accepted lines only, whatever
\* other families and skipped lines come between.
C4_Ordinals ==
    LET seen == QualLines(SubSeq(Given.lines, 4, f_pos))
    IN  /\ Len(tes) = Len(seen)
        /\ \A i \in 1..Len(tes) :
              /\ tes[i].family = Tokens(seen[i])[10]
              /\ tes[i].locus_id =
                     tes[i].family \o "{}" \o ToString(Occurrence(tes, i))
        /\ \A fam \in DOMAIN locus_counter :
              locus_counter[fam] =
                  Cardinality({i \in 1..Len(tes) : tes[i].family = fam})

C4_Witness ==
    /\ pc = "done"
    /\ Len(PostHeader) = 3
    /\ ~Qualifies(PostHeader[2])
    /\ Len(ret) = 2
    /\ ret[1].family = ret[2].family
    /\ ret[2].locus_id = "DNAREP1{}2"

\* C5: a post-header line of 14 or fewer tokens adds no record, changes no
\* counter, raises nothing and lets the loop go on to the next line; the
\* total the driver prints counts the lines of at least 15 tokens only.
C5_ShortLines ==
    /\ [][(/\ pc = "parse_loop"
           /\ f_pos < Len(InFile.lines)
           /\ NumTokens(InFile.lines[f_pos + 1]) <= 14)
          => (/\ tes' = tes
              /\ locus_counter' = locus_counter
              /\ exc' = exc
              /\ pc' = "parse_loop"
              /\ f_pos' = f_pos + 1)]_vars
    /\ [](pc = "done" =>
            stdout[2] = "Found " \o ToString(Len(QualLines(PostHeader)))
                            \o " TE annotations")

C5_Witness ==
    /\ pc = "done"
    /\ Len(PostHeader) = 3
    /\ NumTokens(PostHeader[2]) \in 1..14
    /\ Len(ret) = 2
    /\ stdout[2] = "Found 2 TE annotations"

\* C6: the parser returns one record per accepted line in file order, the
\* writer emits one data line per record in that order, and no record
\* changes between the return of the parser and the end of the run.
C6_Order ==
    /\ [](returned =>
            LET acc == QualLines(PostHeader)
            IN  /\ Len(ret) = Len(acc)
                /\ \A i \in 1..Len(ret) :
                      /\ ret[i].score = Tokens(acc[i])[1]
                      /\ ret[i].perc_div = Tokens(acc[i])[2]
                      /\ ret[i].chr = Tokens(acc[i])[5]
                      /\ ret[i].start = int(Tokens(acc[i])[6])
                      /\ ret[i].end = int(Tokens(acc[i])[7]))
    /\ []((Positional = 2 /\ Writing) =>
            /\ Len(DataLines) = w_i
            /\ pc = "done" => w_i = Len(ret)
            /\ \A k \in 1..Len(DataLines) :
                  /\ DataLines[k][1] = ret[k].chr
                  /\ DataLines[k][7] = ToString(ret[k].start)
                  /\ DataLines[k][9] = ToString(ret[k].end)
                  /\ DataLines[k][11] = ret[k].score
                  /\ DataLines[k][13] = ret[k].strand
                  /\ AttrOf(DataLines[k])[25] = ret[k].locus_id)
    /\ [][returned => (returned' /\ ret' = ret)]_vars

C6_Witness ==
    /\ pc = "done"
    /\ Len(PostHeader) = 3
    /\ Len(DataLines) = 2
    /\ DataLines[1][1] # DataLines[2][1]

\* C7 as stated: the locus id is not emitted verbatim in the output file.
C7_Original ==
    (Positional = 2 /\ Writing) =>
        \A k \in 1..Len(DataLines) :
            \A i \in 1..Len(DataLines[k]) : DataLines[k][i] # ret[k].locus_id

\* C7 amended: the locus id is the family name, the two characters {} and
\* the per-family running count; gene_id and transcript_id are both the
\* identifier made from its hash; and it is emitted verbatim as the value
\* of the locus_id attribute of the record's line.
C7_LocusId ==
    /\ \A i \in 1..Len(tes) :
          /\ tes[i].locus_id = tes[i].family \o "{}" \o ToString(Occurrence(tes, i))
          /\ tes[i].locus_id \in DOMAIN hashmemo
          /\ tes[i].gene_id = FbtiId(hashmemo[tes[i].locus_id])
          /\ tes[i].transcript_id = tes[i].gene_id
    /\ (Positional = 2 /\ Writing) =>
          \A k \in 1..Len(DataLines) :
              LET attr == AttrOf(DataLines[k])
              IN  /\ attr[22] = "locus_id"
                  /\ attr[25] = ret[k].locus_id
                  /\ attr[4] = ret[k].gene_id
                  /\ attr[11] = ret[k].transcript_id

C7_Witness ==
    /\ pc = "done"
    /\ Len(DataLines) = 2
    /\ AttrOf(DataLines[2])[25] = "DNAREP1{}2"

BadCoords(toks) == ~IsInt(toks[6]) \/ ~IsInt(toks[7])

\* C8: a non-blank line of at least 15 tokens whose token 5 or 6 is not an
\* integer ends the parse with an error at that line: nothing is skipped,
\* nothing later is processed, nothing is returned; a line of fewer than 15
\* tokens with such coordinates is skipped without error.
C8_Fatal ==
    /\ [][(/\ pc = "parse_loop"
           /\ f_pos < Len(InFile.lines)
           /\ NumTokens(InFile.lines[f_pos + 1]) >= 15
           /\ BadCoords(Tokens(InFile.lines[f_pos + 1])))
          => (/\ pc' = "aborted"
              /\ exc' = "ValueError"
              /\ f_pos' = f_pos
              /\ tes' = tes
              /\ ~returned')]_vars
    /\ [][pc = "aborted" => FALSE]_vars
    /\ [](pc = "aborted" => ~returned)
    /\ [][(/\ pc = "parse_loop"
           /\ f_pos < Len(InFile.lines)
           /\ NumTokens(InFile.lines[f_pos + 1]) \in 7..14
           /\ BadCoords(Tokens(InFile.lines[f_pos + 1])))
          => (/\ pc' = "parse_loop"
              /\ exc' = NoValue
              /\ f_pos' = f_pos + 1)]_vars

C8_Witness ==
    /\ pc = "aborted"
    /\ exc = "ValueError"
    /\ f_pos = 4
    /\ NumTokens(PostHeader[1]) = 14
    /\ BadCoords(Tokens(PostHeader[1]))
    /\ Len(PostHeader) = 3

\* C9: with a number of positional arguments other than 2 the driver prints
\* the usage message and exits with status 1; no file is opened, created or
\* changed and neither the parser nor the writer is called.
C9_Usage ==
    (Positional # 2 /\ pc # "main") =>
        /\ pc = "exited"
        /\ exit_status = <<1>>
        /\ stdout = <<UsageLine>>
        /\ io = <<>>
        /\ calls = <<>>
        /\ fs = fs0

C9_Witness == pc = "exited" /\ Positional = 3 /\ Given.exists

\* C10: the output file is opened only after the parser has returned for the
\* whole input; when the parser fails (input missing, fewer than 3 header
\* lines, non-integer coordinate on an accepted line) the writer is never
\* called and the file at the output path is as it was.
C10_WriteAfterParse ==
    /\ (\/ fs # fs0
        \/ "write_gtf" \in {calls[i] : i \in 1..Len(calls)}
        \/ \E i \in 1..Len(io) : io[i][1] = "open_w")
       => (returned /\ pc # "aborted" /\ f_pos = Len(Given.lines))
    /\ pc = "aborted" =>
          /\ fs = fs0
          /\ calls = <<"parse_repeatmasker_out">>
          /\ exc = "FileNotFoundError" <=> ~Given.exists
          /\ exc = "StopIteration" <=> (Given.exists /\ Len(Given.lines) < 3)
          /\ exc = "ValueError" <=>
                 (WellHeaded /\ \E k \in 1..Len(PostHeader) :
                      Qualifies(PostHeader[k]) /\ BadCoords(Tokens(PostHeader[k])))

C10_Witness ==
    /\ pc = "aborted"
    /\ exc = "ValueError"
    /\ fs0[OutPath] = OldGtf
    /\ Len(tes) = 2

====
